---- MODULE Spec2Model ----
(***************************************************************************)
(* Model of ip_location.py: the IPv4 validator, the result-box scraper,    *)
(* query_ip, batch_query, the two savers, get_local_ip and main.           *)
(*                                                                         *)
(* A Python str is a sequence of one-character strings.  Characters that   *)
(* are not ASCII are named by ASCII tokens: "ar2" is ARABIC-INDIC DIGIT    *)
(* TWO (category Nd), "sup2" is SUPERSCRIPT TWO (category No), and the     *)
(* Chinese characters of the labels are named by their pinyin.             *)
(***************************************************************************)
EXTENDS Integers, Sequences, FiniteSets, TLC

VARIABLES
    v_ip,        \* validator harness: the string handed to validate_ip
    v_parts,     \* validator harness: number of dot-joined pieces in v_ip
    v_result,    \* validator harness: "none" or the value validate_ip returned
    h_box,       \* scraper harness: the page has a div of class result-box
    h_paras,     \* scraper harness: texts of the <p> elements of that div
    h_done,      \* scraper harness: which of the two scrapers has been called
    h_data,      \* scraper harness: the map parse_location_data returned
    h_text,      \* scraper harness: the str extract_result_box returned
    a_mode,      \* argv: "single" (positional ip), "local" (--local) or "file" (--file)
    a_ip,        \* argv: the positional ip
    a_json,      \* argv: --json
    a_output,    \* argv: --output given
    f_exists,    \* the --file path exists
    f_raw,       \* the lines of the --file file
    pc,          \* position of main
    ip_list,     \* main: the stripped non-blank lines
    idx,         \* batch_query: loop counter i
    results,     \* the records query_ip has returned, in call order
    local_ip,    \* main: what get_local_ip returned
    g_primary,   \* how the request to api.ipify.org ended
    g_fallback,  \* how the request to ifconfig.me ended
    stdout,      \* what has been printed, in order
    net,         \* requests sent and sleeps taken, in order
    files,       \* files opened for writing, with what was written
    missing,     \* keys whose lookup raised KeyError
    exit_code    \* -1 while running, else the process exit status

v_vars == <<v_ip, v_parts, v_result>>

h_vars == <<h_box, h_paras, h_done, h_data, h_text>>

m_vars == <<a_mode, a_ip, a_json, a_output, f_exists, f_raw, pc, ip_list, idx,
            results, local_ip, g_primary, g_fallback, stdout, net, files,
            missing, exit_code>>

vars == <<v_ip, v_parts, v_result, h_box, h_paras, h_done, h_data, h_text,
          a_mode, a_ip, a_json, a_output, f_exists, f_raw, pc, ip_list, idx,
          results, local_ip, g_primary, g_fallback, stdout, net, files,
          missing, exit_code>>

----------------------------------------------------------------------------
(* Bounds *)

MaxParts == 5

MaxParagraphs == 3

MaxLines == 2

----------------------------------------------------------------------------
(* str helpers *)

\* str.split(sep) for a one-character separator: always at least one piece.
RECURSIVE SplitFrom(_, _, _, _)
SplitFrom(s, sep, i, cur) ==
    IF i > Len(s) THEN <<cur>>
    ELSE IF s[i] = sep THEN <<cur>> \o SplitFrom(s, sep, i + 1, <<>>)
    ELSE SplitFrom(s, sep, i + 1, Append(cur, s[i]))

Split(s, sep) == SplitFrom(s, sep, 1, <<>>)

\* Characters for which str.isdigit() is true: Nd and the Numeric_Type=Digit ones.
DecimalDigitValue == [c \in {"0", "1", "2", "5", "6", "7", "ar2"} |->
    CASE c = "0" -> 0 [] c = "1" -> 1 [] c = "2" -> 2 [] c = "5" -> 5
      [] c = "6" -> 6 [] c = "7" -> 7 [] c = "ar2" -> 2]

DecimalDigits == DOMAIN DecimalDigitValue

IsDigitChars == DecimalDigits \cup {"sup2"}

\* str.isdigit(): non-empty and every character is a digit character.
isdigit(part) == Len(part) > 0 /\ \A i \in 1..Len(part) : part[i] \in IsDigitChars

\* int(part) succeeds only on decimal digits (Nd); otherwise ValueError.
IntRaises(part) == \E i \in 1..Len(part) : part[i] \notin DecimalDigits

RECURSIVE IntOf(_)
IntOf(part) ==
    IF Len(part) = 0 THEN 0
    ELSE 10 * IntOf(SubSeq(part, 1, Len(part) - 1)) + DecimalDigitValue[part[Len(part)]]

\* PartCheck with the upper limit off by one.
PartCheckOffByOne(part) ==
    IF ~isdigit(part) THEN "false"
    ELSE IF IntRaises(part) THEN "raise"
    ELSE IF ~(0 <= IntOf(part) /\ IntOf(part) <= 256) THEN "false"
    ELSE "ok"

\* One pass of the loop body of validate_ip on one part:
\* "ok" (continue), "false" (return False), "raise" (int() raised).
PartCheck(part) ==
    IF ~isdigit(part) THEN "false"
    ELSE IF IntRaises(part) THEN "raise"
    ELSE IF ~(0 <= IntOf(part) /\ IntOf(part) <= 255) THEN "false"
    ELSE "ok"

\* validate_ip: how the call ends, "True", "False", or "except" (the bare
\* except clause, which returns False).
validate_ip_outcome(ip) ==
    LET parts == Split(ip, ".") IN
    IF Len(parts) # 4 THEN "False"
    ELSE IF \A i \in 1..4 : PartCheck(parts[i]) = "ok" THEN "True"
    ELSE LET first == CHOOSE i \in 1..4 :
                 /\ PartCheck(parts[i]) # "ok"
                 /\ \A j \in 1..(i - 1) : PartCheck(parts[j]) = "ok"
         IN IF PartCheck(parts[first]) = "raise" THEN "except" ELSE "False"

validate_ip(ip) == validate_ip_outcome(ip) = "True"

----------------------------------------------------------------------------
(* Validator harness: build a string from dot-joined pieces, then validate *)

PartSamples ==
    { <<>>, <<"0">>, <<"2", "5", "5">>, <<"2", "5", "6">>, <<"1", "a">>,
      <<"-", "1">>, <<" ", "1">>, <<"ar2">>, <<"sup2">> }

VIdle ==
    /\ v_ip = <<>>
    /\ v_parts = 0
    /\ v_result = "none"

HIdle ==
    /\ h_box = FALSE
    /\ h_paras = <<>>
    /\ h_done = {}
    /\ h_data = <<>>
    /\ h_text = <<>>

MIdle ==
    /\ a_mode = "single"
    /\ a_ip = <<>>
    /\ a_json = FALSE
    /\ a_output = FALSE
    /\ f_exists = FALSE
    /\ f_raw = <<>>
    /\ pc = "idle"
    /\ ip_list = <<>>
    /\ idx = 0
    /\ results = <<>>
    /\ local_ip = <<>>
    /\ g_primary = "none"
    /\ g_fallback = "none"
    /\ stdout = <<>>
    /\ net = <<>>
    /\ files = <<>>
    /\ missing = {}
    /\ exit_code = -1

VInit ==
    /\ VIdle
    /\ HIdle
    /\ MIdle

\* Extend the input by one more dot-separated piece.
AppendPart ==
    /\ v_result = "none"
    /\ v_parts < MaxParts
    /\ \E p \in PartSamples :
         v_ip' = IF v_parts = 0 THEN p ELSE v_ip \o <<".">> \o p
    /\ v_parts' = v_parts + 1
    /\ v_result' = "none"
    /\ UNCHANGED h_vars
    /\ UNCHANGED m_vars

\* Call validate_ip on the string built so far.
CallValidate ==
    /\ v_result = "none"
    /\ v_result' = IF validate_ip(v_ip) THEN "True" ELSE "False"
    /\ UNCHANGED <<v_ip, v_parts>>
    /\ UNCHANGED h_vars
    /\ UNCHANGED m_vars

VNext == AppendPart \/ CallValidate

SpecValidate == VInit /\ [][VNext]_vars

----------------------------------------------------------------------------
(* C4 *)

\* The four pieces of ip cut at dot positions i < j < k.
Piece1(ip, i) == SubSeq(ip, 1, i - 1)
Piece2(ip, i, j) == SubSeq(ip, i + 1, j - 1)
Piece3(ip, j, k) == SubSeq(ip, j + 1, k - 1)
Piece4(ip, k) == SubSeq(ip, k + 1, Len(ip))

DecimalRun(s) ==
    /\ Len(s) > 0
    /\ \A n \in 1..Len(s) : s[n] \in DecimalDigits
    /\ IntOf(s) \in 0..255

IsDottedQuad(ip) ==
    \E i, j, k \in {n \in 1..Len(ip) : ip[n] = "."} :
        /\ i < j /\ j < k
        /\ DecimalRun(Piece1(ip, i))
        /\ DecimalRun(Piece2(ip, i, j))
        /\ DecimalRun(Piece3(ip, j, k))
        /\ DecimalRun(Piece4(ip, k))

----------------------------------------------------------------------------
(* The scrapers: extract_result_box and parse_location_data *)

Whitespace == {" ", "\n"}

\* str.strip(): drop the whitespace at both ends.
RECURSIVE LStrip(_)
LStrip(s) == IF Len(s) > 0 /\ s[1] \in Whitespace THEN LStrip(Tail(s)) ELSE s

RECURSIVE RStrip(_)
RStrip(s) ==
    IF Len(s) > 0 /\ s[Len(s)] \in Whitespace THEN RStrip(SubSeq(s, 1, Len(s) - 1)) ELSE s

Strip(s) == RStrip(LStrip(s))

\* sub in s
Contains(s, sub) ==
    \E i \in 1..(Len(s) - Len(sub) + 1) : SubSeq(s, i, i + Len(sub) - 1) = sub

\* text.split(":", 1): <<before, after>> of the first separator.
RECURSIVE SplitOnceFrom(_, _, _, _)
SplitOnceFrom(s, sep, i, cur) ==
    IF i > Len(s) THEN <<cur>>
    ELSE IF s[i] = sep THEN <<cur, SubSeq(s, i + 1, Len(s))>>
    ELSE SplitOnceFrom(s, sep, i + 1, Append(cur, s[i]))

SplitOnce(s, sep) == SplitOnceFrom(s, sep, 1, <<>>)

\* "\n".join(results)
RECURSIVE JoinLines(_)
JoinLines(texts) ==
    IF Len(texts) = 0 THEN <<>>
    ELSE IF Len(texts) = 1 THEN texts[1]
    ELSE texts[1] \o <<"\n">> \o JoinLines(Tail(texts))

\* The literals of the source, as character sequences.
S_IP == <<"I", "P">>
S_ip == <<"i", "p">>
S_dingwei == <<"ding", "wei">>
S_shengfen == <<"sheng", "fen">>
S_shi == <<"shi">>
S_sheng == <<"sheng">>
S_qu == <<"qu">>
S_dizhi == <<"di", "zhi">>
S_yunyingshang == <<"yun", "ying", "shang">>

K_ip == <<"i", "p">>
K_location == <<"l", "o", "c", "a", "t", "i", "o", "n">>
K_province == <<"p", "r", "o", "v", "i", "n", "c", "e">>
K_city == <<"c", "i", "t", "y">>
K_district == <<"d", "i", "s", "t", "r", "i", "c", "t">>
K_address == <<"a", "d", "d", "r", "e", "s", "s">>
K_isp == <<"i", "s", "p">>
K_error == <<"e", "r", "r", "o", "r">>

NotFoundText == <<"wei", "zhao", "dao", "cha", "xun", "jie", "guo">>

\* NormalKey whose city test forgets to exclude the province character.
NormalKeyNoProvinceGuard(key) ==
    IF Contains(key, S_IP) \/ Contains(key, S_ip) THEN K_ip
    ELSE IF Contains(key, S_dingwei) THEN K_location
    ELSE IF Contains(key, S_shengfen) THEN K_province
    ELSE IF Contains(key, S_shi) THEN K_city
    ELSE IF Contains(key, S_qu) THEN K_district
    ELSE IF Contains(key, S_dizhi) THEN K_address
    ELSE IF Contains(key, S_yunyingshang) THEN K_isp
    ELSE key

\* The if/elif chain that normalises a key.
NormalKey(key) ==
    IF Contains(key, S_IP) \/ Contains(key, S_ip) THEN K_ip
    ELSE IF Contains(key, S_dingwei) THEN K_location
    ELSE IF Contains(key, S_shengfen) THEN K_province
    ELSE IF Contains(key, S_shi) /\ ~Contains(key, S_sheng) THEN K_city
    ELSE IF Contains(key, S_qu) THEN K_district
    ELSE IF Contains(key, S_dizhi) THEN K_address
    ELSE IF Contains(key, S_yunyingshang) THEN K_isp
    ELSE key

\* location_data[k] = v
DictSet(d, k, v) == [x \in (DOMAIN d) \cup {k} |-> IF x = k THEN v ELSE d[x]]

\* One pass of the loop body over a paragraph text.
ParseParagraph(location_data, text) ==
    IF \E i \in 1..Len(text) : text[i] = ":"
    THEN LET kv == SplitOnce(text, ":")
             key == Strip(kv[1])
             value == Strip(kv[2])
         IN DictSet(location_data, NormalKey(key), value)
    ELSE location_data

RECURSIVE ParseLoop(_, _)
ParseLoop(location_data, paragraphs) ==
    IF Len(paragraphs) = 0 THEN location_data
    ELSE ParseLoop(ParseParagraph(location_data, Head(paragraphs)), Tail(paragraphs))

\* html is [box |-> BOOLEAN, paras |-> the <p> texts of the result-box div].
parse_location_data(html) ==
    IF ~html.box THEN DictSet(<<>>, K_error, NotFoundText)
    ELSE ParseLoop(<<>>, html.paras)

extract_result_box(html) ==
    IF html.box THEN JoinLines(html.paras) ELSE NotFoundText

----------------------------------------------------------------------------
(* Scraper harness: build a page, then call the scrapers on it *)

ParagraphSamples ==
    { <<"I", "P", ":", "1">>,
      <<"i", "p", "di", "zhi", ":", "2">>,
      <<"ding", "wei", ":", "a", ":", "b">>,
      <<"sheng", "fen", ":", "x">>,
      <<"sheng", "shi", ":", "y">>,
      <<"sheng", "fen", "shi", ":", "q">>,
      <<"shi", "qu", ":", "z">>,
      <<"qu", ":">>,
      <<"di", "zhi">>,
      <<"di", "zhi", ":", "r">>,
      <<"yun", "ying", "shang", " ", ":", " ", "v">>,
      <<"c", "i", "t", "y", ":", "w">> }

HInit ==
    /\ VIdle
    /\ MIdle
    /\ h_box \in BOOLEAN
    /\ h_paras = <<>>
    /\ h_done = {}
    /\ h_data = <<>>
    /\ h_text = <<>>

\* The page's result box holds one more <p>.
AddParagraph ==
    /\ h_done = {}
    /\ h_box
    /\ Len(h_paras) < MaxParagraphs
    /\ \E t \in ParagraphSamples : h_paras' = Append(h_paras, t)
    /\ UNCHANGED <<h_box, h_done, h_data, h_text>>
    /\ UNCHANGED v_vars
    /\ UNCHANGED m_vars

CallParse ==
    /\ "parse" \notin h_done
    /\ h_data' = parse_location_data([box |-> h_box, paras |-> h_paras])
    /\ h_done' = h_done \cup {"parse"}
    /\ UNCHANGED <<h_box, h_paras, h_text>>
    /\ UNCHANGED v_vars
    /\ UNCHANGED m_vars

CallExtract ==
    /\ "extract" \notin h_done
    /\ h_text' = extract_result_box([box |-> h_box, paras |-> h_paras])
    /\ h_done' = h_done \cup {"extract"}
    /\ UNCHANGED <<h_box, h_paras, h_data>>
    /\ UNCHANGED v_vars
    /\ UNCHANGED m_vars

HNext == AddParagraph \/ CallParse \/ CallExtract

SpecScrape == HInit /\ [][HNext]_vars

----------------------------------------------------------------------------
(* C9 *)

HasColon(text) == \E i \in 1..Len(text) : text[i] = ":"

FirstColon(text) ==
    CHOOSE i \in 1..Len(text) : text[i] = ":" /\ \A j \in 1..(i - 1) : text[j] # ":"

LabelOf(text) == Strip(SubSeq(text, 1, FirstColon(text) - 1))

ValueOf(text) == Strip(SubSeq(text, FirstColon(text) + 1, Len(text)))

RuleKey == <<K_ip, K_location, K_province, K_city, K_district, K_address, K_isp>>

RuleMatches(r, label) ==
    CASE r = 1 -> Contains(label, S_IP) \/ Contains(label, S_ip)
      [] r = 2 -> Contains(label, S_dingwei)
      [] r = 3 -> Contains(label, S_shengfen)
      [] r = 4 -> Contains(label, S_shi) /\ ~Contains(label, S_sheng)
      [] r = 5 -> Contains(label, S_qu)
      [] r = 6 -> Contains(label, S_dizhi)
      [] r = 7 -> Contains(label, S_yunyingshang)

ChosenKey(label) ==
    LET matching == {r \in 1..7 : RuleMatches(r, label)} IN
    IF matching = {} THEN label
    ELSE RuleKey[CHOOSE r \in matching : \A q \in matching : r <= q]

Labeled(paras) == {n \in 1..Len(paras) : HasColon(paras[n])}

LastFor(paras, k) ==
    CHOOSE n \in Labeled(paras) :
        /\ ChosenKey(LabelOf(paras[n])) = k
        /\ \A m \in Labeled(paras) : ChosenKey(LabelOf(paras[m])) = k => m <= n

\* C9: every labeled paragraph is stored under the key of the first matching
\* rule (else its own label), unlabeled paragraphs add nothing, the last
\* paragraph for a key wins, and a page without a result box gives only an
\* error entry.
C9_FirstRuleWins ==
    "parse" \in h_done =>
        IF ~h_box
        THEN DOMAIN h_data = {K_error} /\ h_data[K_error] = NotFoundText
        ELSE /\ DOMAIN h_data = {ChosenKey(LabelOf(h_paras[n])) : n \in Labeled(h_paras)}
             /\ \A k \in DOMAIN h_data : h_data[k] = ValueOf(h_paras[LastFor(h_paras, k)])

C9_Witness ==
    /\ "parse" \in h_done
    /\ h_box
    /\ h_paras = << <<"shi", "qu", ":", "z">>, <<"di", "zhi">>, <<"c", "i", "t", "y", ":", "w">> >>
    /\ DOMAIN h_data = {K_city}
    /\ h_data[K_city] = <<"w">>
----------------------------------------------------------------------------
(* query_ip, the savers and the JSON documents.                            *)
(* A fixed literal of a message is one token; what an f-string embeds is   *)
(* appended to it character by character.  A dict is a function whose      *)
(* DOMAIN is its key set, so a lookup of an absent key is visible.         *)

HasKey(d, k) == k \in DOMAIN d

\* d.get(k, default)
Get(d, k, default) == IF HasKey(d, k) THEN d[k] ELSE default

UnknownError == <<"wei-zhi-cuo-wu">>

IP_A == <<"1", ".", "1", ".", "1", ".", "1">>
IP_B == <<"2", ".", "2", ".", "2", ".", "2">>
BAD_IP == <<"2", "5", "6", ".", "1", ".", "1", ".", "1">>

PageFound == [box |-> TRUE,
              paras |-> << <<"I", "P", ":", "1">>, <<"di", "zhi", ":", "r">> >>]
PageNoBox == [box |-> FALSE, paras |-> <<>>]

\* How the POST ends: a 200 response with a page, another status code, or
\* one of the three exception classes query_ip tells apart.
Outcomes ==
    {[kind |-> "ok", page |-> p] : p \in {PageFound, PageNoBox}}
    \cup {[kind |-> k, page |-> PageNoBox] : k \in {"non200", "timeout", "neterr", "other"}}

\* query_ip sends a POST exactly when the address passes validate_ip.
Posts(ip_address) == validate_ip(ip_address)

query_ip(ip_address, outcome) ==
    IF ~validate_ip(ip_address)
    THEN [error |-> <<"invalid-ip-format: ">> \o ip_address]
    ELSE IF outcome.kind = "ok"
    THEN [ip |-> ip_address,
          result |-> extract_result_box(outcome.page),
          location_data |-> parse_location_data(outcome.page),
          status |-> "success"]
    ELSE IF outcome.kind = "non200"
    THEN [ip |-> ip_address,
          error |-> <<"request-failed-status: ", "5", "0", "0">>,
          status |-> "error"]
    ELSE IF outcome.kind = "timeout"
    THEN [ip |-> ip_address, error |-> <<"request-timeout">>, status |-> "error"]
    ELSE IF outcome.kind = "neterr"
    THEN [ip |-> ip_address, error |-> <<"network-error: ", "e">>, status |-> "error"]
    ELSE [ip |-> ip_address, error |-> <<"unknown-error: ", "e">>, status |-> "error"]

\* Indices of the records whose lookup of key k raises KeyError.
Lacking(rs, k) == {i \in 1..Len(rs) : ~HasKey(rs[i], k)}

SuccessCount(rs) == Cardinality({i \in 1..Len(rs) : rs[i]["status"] = "success"})

\* One element of json_data["results"] in save_results_json.
JsonEntry(result) ==
    IF result["status"] = "success"
    THEN [ip |-> result["ip"], status |-> "success",
          location_data |-> Get(result, "location_data", <<>>),
          raw_result |-> result["result"]]
    ELSE [ip |-> result["ip"], status |-> "error",
          error |-> Get(result, "error", UnknownError)]

\* json_data of save_results_json; defined when every record has a status.
JsonData(rs) ==
    [query_time |-> "now",
     total_count |-> Len(rs),
     success_count |-> SuccessCount(rs),
     results |-> [i \in 1..Len(rs) |-> JsonEntry(rs[i])]]

\* json_data that main prints when --json is given without --output.
ConsoleJsonData(rs, success_count) ==
    [query_time |-> "now",
     total_count |-> Len(rs),
     success_count |-> success_count,
     results |-> [i \in 1..Len(rs) |->
        IF rs[i]["status"] = "success"
        THEN [ip |-> rs[i]["ip"], status |-> "success",
              location_data |-> Get(rs[i], "location_data", <<>>),
              raw_result |-> rs[i]["result"]]
        ELSE [ip |-> rs[i]["ip"], status |-> "error",
              error |-> Get(rs[i], "error", UnknownError)]]]

\* save_results_json: the KeyError of a record without "status" is raised
\* while json_data is built, before the file is opened.
save_results_json(rs) ==
    IF Lacking(rs, "status") # {}
    THEN [files |-> <<>>, printed |-> "save-json-failed"]
    ELSE [files |-> <<[format |-> "json", content |-> JsonData(rs)]>>,
          printed |-> "saved-json"]

\* The f.write calls save_results makes for one record, up to a KeyError.
TextWrites(result) ==
    IF ~HasKey(result, "ip") THEN <<>>
    ELSE IF ~HasKey(result, "status") THEN << <<"IP: ">> \o result["ip"] \o <<"\n">> >>
    ELSE << <<"IP: ">> \o result["ip"] \o <<"\n">>,
            IF result["status"] = "success"
            THEN <<"jie-guo:\n">> \o result["result"] \o <<"\n">>
            ELSE <<"cuo-wu: ">> \o Get(result, "error", UnknownError) \o <<"\n">>,
            <<"--------------------------------------------------\n">> >>

RECURSIVE TextLoop(_)
TextLoop(rs) ==
    IF Len(rs) = 0 THEN <<>>
    ELSE IF ~HasKey(rs[1], "ip") \/ ~HasKey(rs[1], "status") THEN TextWrites(rs[1])
    ELSE TextWrites(rs[1]) \o TextLoop(Tail(rs))

\* save_results: the file is opened first, so a KeyError leaves it partial.
save_results(rs) ==
    [files |-> <<[format |-> "text", content |-> TextLoop(rs)]>>,
     printed |-> IF Lacking(rs, "ip") # {} \/ Lacking(rs, "status") # {}
                 THEN "save-text-failed" ELSE "saved-text"]

Text(tag) == [kind |-> "text", what |-> tag]
Json(doc) == [kind |-> "json", what |-> doc]

\* print(json.dumps(json_data)) when --json, else print(message)
PrintError(tag) == IF a_json THEN Json([status |-> "error", error |-> tag]) ELSE Text(tag)

\* The except Exception clause of main: print and sys.exit(1).
ProgramError(out, key) ==
    /\ stdout' = out \o <<Text("program-error")>>
    /\ missing' = missing \cup {key}
    /\ exit_code' = 1
    /\ pc' = "done"

ExitZero(out) ==
    /\ stdout' = out
    /\ missing' = missing
    /\ exit_code' = 0
    /\ pc' = "done"
----------------------------------------------------------------------------
(* main *)

ArgSamples == {IP_A, BAD_IP, <<>>}

RawLineSamples == {IP_A, IP_B, BAD_IP, <<" ">>}

FileContents == UNION {[1..n -> RawLineSamples] : n \in 0..MaxLines}

EchoBodies == {IP_A \o <<"\n">>, <<"a">>}

\* How a GET to an IP-echo endpoint ends: a response or an exception.
EchoOutcomes ==
    {[kind |-> k, body |-> b] : k \in {"ok", "non200"}, b \in EchoBodies}
    \cup {[kind |-> "exc", body |-> <<>>]}

\* [line.strip() for line in f if line.strip()]
RECURSIVE StrippedLines(_)
StrippedLines(lines) ==
    IF Len(lines) = 0 THEN <<>>
    ELSE IF Strip(lines[1]) # <<>> THEN <<Strip(lines[1])>> \o StrippedLines(Tail(lines))
    ELSE StrippedLines(Tail(lines))

Get1 == [op |-> "GET", to |-> <<"api.ipify.org">>]
Get2 == [op |-> "GET", to |-> <<"ifconfig.me">>]
Post(ip_address) == [op |-> "POST", to |-> ip_address]
Sleep == [op |-> "sleep", to |-> <<>>]

\* The requests query_ip(ip_address) sends.
Sent(ip_address) == IF Posts(ip_address) THEN <<Post(ip_address)>> ELSE <<>>

MInit ==
    /\ VIdle
    /\ HIdle
    /\ a_mode \in {"single", "local", "file"}
    /\ a_ip \in IF a_mode = "single" THEN ArgSamples ELSE {<<>>}
    /\ a_json \in BOOLEAN
    /\ a_output \in BOOLEAN
    /\ f_exists \in IF a_mode = "file" THEN BOOLEAN ELSE {FALSE}
    /\ f_raw \in IF f_exists THEN FileContents ELSE {<<>>}
    /\ pc = "start"
    /\ ip_list = <<>>
    /\ idx = 0
    /\ results = <<>>
    /\ local_ip = <<>>
    /\ g_primary = "none"
    /\ g_fallback = "none"
    /\ stdout = <<>>
    /\ net = <<>>
    /\ files = <<>>
    /\ missing = {}
    /\ exit_code = -1

a_vars == <<a_mode, a_ip, a_json, a_output, f_exists, f_raw>>

show_banner ==
    /\ pc = "start"
    /\ stdout' = Append(stdout, Text("banner"))
    /\ pc' = "dispatch"
    /\ UNCHANGED <<ip_list, idx, results, local_ip, g_primary, g_fallback, net,
                   files, missing, exit_code>>
    /\ UNCHANGED a_vars
    /\ UNCHANGED <<v_vars, h_vars>>

\* get_local_ip, first request.
get_local_ip ==
    /\ pc = "dispatch"
    /\ a_mode = "local"
    /\ net' = Append(net, Get1)
    /\ \E o \in EchoOutcomes :
         /\ g_primary' = o.kind
         /\ IF o.kind = "ok"
            THEN /\ local_ip' = Strip(o.body)
                 /\ pc' = "local_have"
                 /\ stdout' = stdout
            ELSE IF o.kind = "non200"
            THEN /\ local_ip' = local_ip
                 /\ pc' = "get_fallback"
                 /\ stdout' = stdout
            ELSE /\ local_ip' = <<>>
                 /\ pc' = "local_have"
                 /\ stdout' = Append(stdout, Text("get-local-failed"))
    /\ UNCHANGED <<ip_list, idx, results, g_fallback, files, missing, exit_code>>
    /\ UNCHANGED a_vars
    /\ UNCHANGED <<v_vars, h_vars>>

\* get_local_ip, the else branch: the request to the fallback endpoint.
get_local_ip_fallback ==
    /\ pc = "get_fallback"
    /\ net' = Append(net, Get2)
    /\ \E o \in EchoOutcomes :
         /\ g_fallback' = o.kind
         /\ IF o.kind = "exc"
            THEN /\ local_ip' = <<>>
                 /\ stdout' = Append(stdout, Text("get-local-failed"))
            ELSE /\ local_ip' = Strip(o.body)
                 /\ stdout' = stdout
    /\ pc' = "local_have"
    /\ UNCHANGED <<ip_list, idx, results, g_primary, files, missing, exit_code>>
    /\ UNCHANGED a_vars
    /\ UNCHANGED <<v_vars, h_vars>>

\* main, --local, get_local_ip returned "".
LocalNoIp ==
    /\ pc = "local_have"
    /\ local_ip = <<>>
    /\ ExitZero(Append(stdout, PrintError("no-local-ip")))
    /\ UNCHANGED <<ip_list, idx, results, local_ip, g_primary, g_fallback, net, files>>
    /\ UNCHANGED a_vars
    /\ UNCHANGED <<v_vars, h_vars>>

\* main, --local, with an address: query it and print.
LocalQuery ==
    /\ pc = "local_have"
    /\ local_ip # <<>>
    /\ \E o \in Outcomes :
         LET result == query_ip(local_ip, o)
             out == IF a_json THEN stdout ELSE Append(stdout, Text("local-ip"))
         IN /\ results' = Append(results, result)
            /\ net' = net \o Sent(local_ip)
            /\ IF ~HasKey(result, "status") THEN ProgramError(out, "status")
               ELSE IF result["status"] = "success"
               THEN ExitZero(out \o
                      IF a_json
                      THEN <<Json([local_ip |-> local_ip, status |-> "success",
                                   location_data |-> Get(result, "location_data", <<>>),
                                   raw_result |-> result["result"]])>>
                      ELSE <<Text("result-header"), Text("result-body")>>)
               ELSE ExitZero(out \o
                      IF a_json
                      THEN <<Json([local_ip |-> local_ip, status |-> "error",
                                   error |-> Get(result, "error", UnknownError)])>>
                      ELSE <<Text("query-failed")>>)
    /\ UNCHANGED <<ip_list, idx, local_ip, g_primary, g_fallback, files>>
    /\ UNCHANGED a_vars
    /\ UNCHANGED <<v_vars, h_vars>>

\* main, --file, the path does not exist: print and sys.exit(1).
FileMissing ==
    /\ pc = "dispatch"
    /\ a_mode = "file"
    /\ ~f_exists
    /\ stdout' = Append(stdout, PrintError("file-missing"))
    /\ exit_code' = 1
    /\ pc' = "done"
    /\ UNCHANGED <<ip_list, idx, results, local_ip, g_primary, g_fallback, net,
                   files, missing>>
    /\ UNCHANGED a_vars
    /\ UNCHANGED <<v_vars, h_vars>>

\* main, --file, no non-blank line: print and sys.exit(1).
FileEmpty ==
    /\ pc = "dispatch"
    /\ a_mode = "file"
    /\ f_exists
    /\ StrippedLines(f_raw) = <<>>
    /\ ip_list' = <<>>
    /\ stdout' = Append(stdout, PrintError("file-empty"))
    /\ exit_code' = 1
    /\ pc' = "done"
    /\ UNCHANGED <<idx, results, local_ip, g_primary, g_fallback, net, files, missing>>
    /\ UNCHANGED a_vars
    /\ UNCHANGED <<v_vars, h_vars>>

\* main reads the file and enters batch_query, up to the loop.
BatchBegin ==
    /\ pc = "dispatch"
    /\ a_mode = "file"
    /\ f_exists
    /\ StrippedLines(f_raw) # <<>>
    /\ ip_list' = StrippedLines(f_raw)
    /\ stdout' = IF a_json THEN stdout ELSE Append(stdout, Text("batch-start"))
    /\ idx' = 1
    /\ pc' = "batch_loop"
    /\ UNCHANGED <<results, local_ip, g_primary, g_fallback, net, files, missing,
                   exit_code>>
    /\ UNCHANGED a_vars
    /\ UNCHANGED <<v_vars, h_vars>>

\* One pass of the loop of batch_query: query, append, report, sleep.
\* The KeyError of result["status"] leaves batch_query and ends main.
BatchIterate ==
    /\ pc = "batch_loop"
    /\ idx <= Len(ip_list)
    /\ \E o \in Outcomes :
         LET ip == ip_list[idx]
             result == query_ip(Strip(ip), o)
             out == IF a_json THEN stdout ELSE Append(stdout, Text("batch-progress"))
         IN /\ results' = Append(results, result)
            /\ IF ~a_json /\ ~HasKey(result, "status")
               THEN /\ ProgramError(out, "status")
                    /\ net' = net \o Sent(Strip(ip))
                    /\ idx' = idx
               ELSE /\ stdout' = IF a_json THEN out
                                 ELSE IF result["status"] = "success"
                                 THEN Append(out, Text("batch-ok"))
                                 ELSE Append(out, Text("batch-fail"))
                    /\ net' = (net \o Sent(Strip(ip))) \o <<Sleep>>
                    /\ idx' = idx + 1
                    /\ UNCHANGED <<pc, missing, exit_code>>
    /\ UNCHANGED <<ip_list, local_ip, g_primary, g_fallback, files>>
    /\ UNCHANGED a_vars
    /\ UNCHANGED <<v_vars, h_vars>>

\* After the loop: batch_query saves if asked and returns, main counts the
\* successes and prints the summary or the JSON document.
BatchFinish ==
    /\ pc = "batch_loop"
    /\ idx > Len(ip_list)
    /\ LET saved == IF ~a_output THEN [files |-> <<>>, printed |-> "nothing"]
                    ELSE IF a_json THEN save_results_json(results)
                    ELSE save_results(results)
           out == IF a_output THEN Append(stdout, Text(saved.printed)) ELSE stdout
       IN /\ files' = files \o saved.files
          /\ IF Lacking(results, "status") # {} THEN ProgramError(out, "status")
             ELSE IF ~a_json THEN ExitZero(Append(out, Text("summary")))
             ELSE IF ~a_output
             THEN ExitZero(Append(out, Json(ConsoleJsonData(results, SuccessCount(results)))))
             ELSE ExitZero(out)
    /\ UNCHANGED <<ip_list, idx, results, local_ip, g_primary, g_fallback, net>>
    /\ UNCHANGED a_vars
    /\ UNCHANGED <<v_vars, h_vars>>

\* main, positional ip that is the empty string: print and sys.exit(1).
SingleNoArg ==
    /\ pc = "dispatch"
    /\ a_mode = "single"
    /\ a_ip = <<>>
    /\ stdout' = IF a_json THEN Append(stdout, PrintError("no-ip-arg"))
                 ELSE stdout \o <<Text("no-ip-arg"), Text("help")>>
    /\ exit_code' = 1
    /\ pc' = "done"
    /\ UNCHANGED <<ip_list, idx, results, local_ip, g_primary, g_fallback, net,
                   files, missing>>
    /\ UNCHANGED a_vars
    /\ UNCHANGED <<v_vars, h_vars>>

\* main, positional ip: query it and print.
SingleQuery ==
    /\ pc = "dispatch"
    /\ a_mode = "single"
    /\ a_ip # <<>>
    /\ \E o \in Outcomes :
         LET result == query_ip(a_ip, o) IN
         /\ results' = Append(results, result)
         /\ net' = net \o Sent(a_ip)
         /\ IF ~HasKey(result, "status") THEN ProgramError(stdout, "status")
            ELSE IF result["status"] = "success"
            THEN ExitZero(stdout \o
                   IF a_json
                   THEN <<Json([ip |-> result["ip"], status |-> "success",
                                location_data |-> Get(result, "location_data", <<>>),
                                raw_result |-> result["result"]])>>
                   ELSE <<Text("result-header"), Text("result-body")>>)
            ELSE ExitZero(stdout \o
                   IF a_json
                   THEN <<Json([ip |-> result["ip"], status |-> "error",
                                error |-> Get(result, "error", UnknownError)])>>
                   ELSE <<Text("query-failed")>>)
    /\ UNCHANGED <<ip_list, idx, local_ip, g_primary, g_fallback, files>>
    /\ UNCHANGED a_vars
    /\ UNCHANGED <<v_vars, h_vars>>

MNext ==
    \/ show_banner
    \/ get_local_ip
    \/ get_local_ip_fallback
    \/ LocalNoIp
    \/ LocalQuery
    \/ FileMissing
    \/ FileEmpty
    \/ BatchBegin
    \/ BatchIterate
    \/ BatchFinish
    \/ SingleNoArg
    \/ SingleQuery

SpecMain == MInit /\ [][MNext]_vars
----------------------------------------------------------------------------
(* Claims about a run of main *)

Finished == pc = "done"

\* A batch run that got as far as batch_query.
BatchRun == a_mode = "file" /\ f_exists /\ ip_list # <<>>

\* C1: every record query_ip returns has a status of success or error, an
\* error record has a non-empty message, and no caller looks up a missing
\* "status" or "ip" key.
C1_StatusOnEveryRecord ==
    /\ \A i \in 1..Len(results) :
         /\ HasKey(results[i], "status")
         /\ results[i]["status"] \in {"success", "error"}
         /\ results[i]["status"] = "error" =>
              HasKey(results[i], "error") /\ results[i]["error"] # <<>>
    /\ missing = {}

\* C2: the exit status is non-zero only when the batch file is missing or
\* has no non-blank line; every other run that was given something to query,
\* whatever error it met, exits 0.
C2_NonZeroOnlyForInputFile ==
    (Finished /\ ~(a_mode = "single" /\ a_ip = <<>>)) =>
        (exit_code # 0 <=>
            a_mode = "file" /\ (~f_exists \/ StrippedLines(f_raw) = <<>>))

\* The result for one input line: it names that line's address.
IsResultFor(r, ip) ==
    IF HasKey(r, "ip") THEN r["ip"] = ip
    ELSE HasKey(r, "error") /\ r["error"] = <<"invalid-ip-format: ">> \o ip

\* The addresses of the records of a written file, in file order.
FileIps(file) ==
    IF file.format = "json"
    THEN [i \in 1..Len(file.content.results) |-> file.content.results[i].ip]
    ELSE [i \in 1..(Len(file.content) \div 3) |->
            SubSeq(file.content[3 * i - 2], 2, Len(file.content[3 * i - 2]) - 1)]

JsonPrinted == SelectSeq(stdout, LAMBDA item : item.kind = "json")

\* C3: a batch run ends with one record per input line, the i-th for the
\* i-th line, and the file written and the JSON printed list them in that
\* order.
C3_BatchKeepsInputOrder ==
    (Finished /\ BatchRun) =>
        /\ Len(results) = Len(ip_list)
        /\ \A i \in 1..Len(results) : IsResultFor(results[i], ip_list[i])
        /\ a_output => Len(files) = 1 /\ FileIps(files[1]) = ip_list
        /\ (a_json /\ ~a_output) =>
             /\ Len(JsonPrinted) = 1
             /\ [i \in 1..Len(JsonPrinted[1].what.results) |->
                   JsonPrinted[1].what.results[i].ip] = ip_list

\* The body of the i-th text record: the second write, without its literal
\* head and its newline.
TextBody(content, i) == SubSeq(content[3 * i - 1], 2, Len(content[3 * i - 1]) - 1)

TextHead(content, i) == content[3 * i - 1][1]

\* C5: for the list batch_query hands to the savers, the JSON file and the
\* text file hold one record per result in order, with the same ip and the
\* same result text or error message, and the JSON counts are right.
C5_JsonMatchesText ==
    (BatchRun /\ idx > Len(ip_list)) =>
        LET j == save_results_json(results)
            t == save_results(results)
        IN /\ Len(j.files) = 1
           /\ Len(t.files) = 1
           /\ Len(j.files[1].content.results) = Len(results)
           /\ Len(t.files[1].content) = 3 * Len(results)
           /\ FileIps(j.files[1]) = FileIps(t.files[1])
           /\ \A i \in 1..Len(results) :
                LET e == j.files[1].content.results[i] IN
                IF e.status = "success"
                THEN /\ TextHead(t.files[1].content, i) = "jie-guo:\n"
                     /\ TextBody(t.files[1].content, i) = e.raw_result
                ELSE /\ TextHead(t.files[1].content, i) = "cuo-wu: "
                     /\ TextBody(t.files[1].content, i) = e.error
           /\ j.files[1].content.total_count = Len(results)
           /\ j.files[1].content.success_count =
                Cardinality({i \in 1..Len(results) :
                    j.files[1].content.results[i].status = "success"})

PostsSent == SelectSeq(net, LAMBDA e : e.op = "POST")

ValidLines == SelectSeq(ip_list, validate_ip)

\* C6: a batch run sends one POST per valid line and none for a malformed
\* one, in input order, with a sleep between any two consecutive POSTs.
C6_OnePostPerValidLine ==
    /\ \A i, k \in 1..Len(net) :
         (i < k /\ net[i].op = "POST" /\ net[k].op = "POST") =>
             \E s \in (i + 1)..(k - 1) : net[s].op = "sleep"
    /\ (Finished /\ BatchRun) =>
         [i \in 1..Len(PostsSent) |-> PostsSent[i].to] = ValidLines

Gets(to) == Cardinality({i \in 1..Len(net) : net[i] = to})

\* C7: when the primary endpoint gives no address (non-200 or exception)
\* get_local_ip asks the fallback exactly once; it sends at most two
\* requests and returns "" only after both endpoints failed.
C7_FallbackTriedOnce ==
    pc = "local_have" =>
        /\ g_primary \in {"non200", "exc"} => Gets(Get2) = 1
        /\ Gets(Get1) + Gets(Get2) <= 2
        /\ local_ip = <<>> => Gets(Get1) = 1 /\ Gets(Get2) = 1

\* C8: a batch run with --output writes exactly one file, JSON exactly when
\* --json is set; any other run writes no file.
C8_FormatFollowsFlag ==
    Finished =>
        IF BatchRun /\ a_output
        THEN /\ Len(files) = 1
             /\ files[1].format = IF a_json THEN "json" ELSE "text"
        ELSE files = <<>>

\* C10: a run with --json prints exactly one JSON document and nothing
\* else, or nothing at all when the batch results went to the --output file.
C10_JsonRunsPrintOnlyJson ==
    (Finished /\ a_json) =>
        \/ Len(stdout) = 1 /\ stdout[1].kind = "json"
        \/ stdout = <<>> /\ BatchRun /\ a_output /\ Len(files) = 1
====
